---- MODULE Spec2Model ----
(***************************************************************************)
(* Model of src/src/growtopia_login.rs: perform_google_login, the          *)
(* TokenHandler tap, the token_task extractor and google_login_flow.       *)
(*                                                                         *)
(* A Rust String is a sequence of one-character strings.  An Option is a   *)
(* sequence of length 0 (None) or 1 (Some).  A Result is a record with a   *)
(* field ok.                                                               *)
(***************************************************************************)
EXTENDS Integers, Sequences, FiniteSets, TLC

None == <<>>
Some(x) == <<x>>
IsSome(o) == Len(o) = 1
Unwrap(o) == o[1]

\* ------------------------------------------------------------------------
\* Strings
\* ------------------------------------------------------------------------

UpperLetters == <<"A","B","C","D","E","F","G","H","I","J","K","L","M",
                  "N","O","P","Q","R","S","T","U","V","W","X","Y","Z">>
LowerLetters == <<"a","b","c","d","e","f","g","h","i","j","k","l","m",
                  "n","o","p","q","r","s","t","u","v","w","x","y","z">>

\* char::to_lowercase on the ASCII range.
LowerChar(c) ==
    IF \E i \in 1..26 : UpperLetters[i] = c
    THEN LowerLetters[CHOOSE i \in 1..26 : UpperLetters[i] = c]
    ELSE c

\* str::to_lowercase
to_lowercase(s) == [i \in 1..Len(s) |-> LowerChar(s[i])]

\* Whether pat occurs in s starting at position i.
OccursAt(s, pat, i) ==
    /\ i >= 1
    /\ i + Len(pat) - 1 <= Len(s)
    /\ \A k \in 1..Len(pat) : s[i + k - 1] = pat[k]

\* str::contains
contains(s, pat) == \E i \in 1..(Len(s) + 1) : OccursAt(s, pat, i)

\* Positions of the separator c in s, in increasing order, closed by Len(s)+1.
RECURSIVE SepPositions(_, _, _)
SepPositions(s, c, from) ==
    IF from > Len(s) THEN <<Len(s) + 1>>
    ELSE IF s[from] = c THEN <<from>> \o SepPositions(s, c, from + 1)
    ELSE SepPositions(s, c, from + 1)

\* str::split(char), collected: the pieces between separators, empty ones kept.
split(s, c) ==
    LET seps == SepPositions(s, c, 1)
        start(k) == IF k = 1 THEN 1 ELSE seps[k - 1] + 1
    IN  [k \in 1..Len(seps) |-> SubSeq(s, start(k), seps[k] - 1)]

\* The literals of the source.
sGrowtopia == <<"g","r","o","w","t","o","p","i","a">>
sToken == <<"t","o","k","e","n">>
sLogin == <<"l","o","g","i","n">>
sGrowtopiaGameCom == sGrowtopia \o <<"g","a","m","e",".","c","o","m">>

\* Regex (?i)growtopia.*?token, is_match: "growtopia", then any run of
\* characters other than a line feed, then "token", letters in either case.
growtopia_token_regex_is_match(s) ==
    LET low == to_lowercase(s)
    IN  \E i \in 1..Len(s) : \E j \in 1..Len(s) :
           /\ OccursAt(low, sGrowtopia, i)
           /\ j >= i + Len(sGrowtopia)
           /\ OccursAt(low, sToken, j)
           /\ \A k \in (i + Len(sGrowtopia))..(j - 1) : s[k] # "\n"

\* ------------------------------------------------------------------------
\* urlencoding::decode (called at lines 139-141)
\* ------------------------------------------------------------------------

HexDigits == <<"0","1","2","3","4","5","6","7","8","9","A","B","C","D","E","F">>

IsHex(c) == \E i \in 1..16 : HexDigits[i] = c \/ LowerChar(HexDigits[i]) = c

\* from_hex_digit: the value 0..15 of a hex digit of either case.
HexVal(c) == (CHOOSE i \in 1..16 : HexDigits[i] = c \/ LowerChar(HexDigits[i]) = c) - 1

\* The characters of codes 32..126, in code order; the double quote, the
\* backslash and the backquote go by their names U+34, U+92 and U+96.
Printable ==
    <<" ","!","U+34","#","$","%","&","'","(",")","*","+",",","-",".","/",
      "0","1","2","3","4","5","6","7","8","9",":",";","<","=",">","?",
      "@","A","B","C","D","E","F","G","H","I","J","K","L","M","N","O",
      "P","Q","R","S","T","U","V","W","X","Y","Z","[","U+92","]","^","_",
      "U+96","a","b","c","d","e","f","g","h","i","j","k","l","m","n","o",
      "p","q","r","s","t","u","v","w","x","y","z","{","|","}","~">>

\* The character of a code point: itself when printable ASCII, the line feed
\* for 10, and a name "U+<code>" for every other code point.
Chr(n) ==
    IF n \in 32..126 THEN Printable[n - 31]
    ELSE IF n = 10 THEN "\n"
    ELSE "U+" \o ToString(n)

\* One output byte of decode_binary: b is the byte when it came from a %XX
\* escape, and -1 for a character copied from the input (c).
Lit(c) == [b |-> -1, c |-> c]
Byte(n) == [b |-> n, c |-> ""]

\* decode_binary: %XX with two hex digits becomes one byte; a '%' that is
\* not followed by two hex digits is copied and scanning goes on after it
\* (after its first digit, when only the second one is not hex).
RECURSIVE decode_binary(_, _)
decode_binary(s, i) ==
    IF i > Len(s) THEN <<>>
    ELSE IF s[i] # "%" THEN <<Lit(s[i])>> \o decode_binary(s, i + 1)
    ELSE IF Len(s) - i < 2
         THEN [k \in 1..(Len(s) - i + 1) |-> Lit(s[i + k - 1])]
    ELSE IF ~IsHex(s[i + 1]) THEN <<Lit("%")>> \o decode_binary(s, i + 1)
    ELSE IF ~IsHex(s[i + 2])
         THEN <<Lit("%"), Lit(s[i + 1])>> \o decode_binary(s, i + 2)
    ELSE <<Byte(16 * HexVal(s[i + 1]) + HexVal(s[i + 2]))>>
             \o decode_binary(s, i + 3)

IsCont(u) == u.b \in 128..191

\* The length of the UTF-8 sequence that starts at position i of the bytes,
\* or 0 when no well-formed sequence starts there (String::from_utf8).
Utf8Len(u, i) ==
    LET b == u[i].b
        has(n) == i + n - 1 <= Len(u) /\ \A k \in 1..(n - 1) : IsCont(u[i + k])
    IN  IF b < 128 THEN 1
        ELSE IF b \in 194..223 /\ has(2) THEN 2
        ELSE IF b = 224 /\ has(3) /\ u[i + 1].b >= 160 THEN 3
        ELSE IF b = 237 /\ has(3) /\ u[i + 1].b <= 159 THEN 3
        ELSE IF (b \in 225..236 \/ b \in 238..239) /\ has(3) THEN 3
        ELSE IF b = 240 /\ has(4) /\ u[i + 1].b >= 144 THEN 4
        ELSE IF b \in 241..243 /\ has(4) THEN 4
        ELSE IF b = 244 /\ has(4) /\ u[i + 1].b <= 143 THEN 4
        ELSE 0

\* The character a well-formed sequence of length n at position i encodes.
Utf8Char(u, i, n) ==
    LET t(k) == u[i + k].b - 128
    IN  IF n = 1 THEN (IF u[i].b = -1 THEN u[i].c ELSE Chr(u[i].b))
        ELSE IF n = 2 THEN Chr((u[i].b - 192) * 64 + t(1))
        ELSE IF n = 3 THEN Chr((u[i].b - 224) * 4096 + t(1) * 64 + t(2))
        ELSE Chr((u[i].b - 240) * 262144 + t(1) * 4096 + t(2) * 64 + t(3))

\* String::from_utf8: Ok with the characters, or Err.
RECURSIVE from_utf8(_, _)
from_utf8(u, i) ==
    IF i > Len(u) THEN [ok |-> TRUE, val |-> <<>>]
    ELSE LET n == Utf8Len(u, i)
         IN  IF n = 0 THEN [ok |-> FALSE, val |-> <<>>]
             ELSE LET rest == from_utf8(u, i + n)
                  IN  IF rest.ok
                      THEN [ok |-> TRUE, val |-> <<Utf8Char(u, i, n)>> \o rest.val]
                      ELSE rest

\* urlencoding::decode: Err when the decoded bytes are not UTF-8.
urlencoding_decode(s) == from_utf8(decode_binary(s, 1), 1)

\* ------------------------------------------------------------------------
\* token_task: what one request makes the extractor write (lines 129-151)
\* ------------------------------------------------------------------------

\* Mutant of token_value: the value is never percent-decoded.
token_value_raw(parts) == parts[2]

\* Lines 137-142: parts[1], percent-decoded when it holds a '%', the raw
\* text when decoding fails (unwrap_or).
token_value(parts) ==
    LET raw == parts[2]
    IN  IF contains(raw, <<"%">>)
        THEN (LET d == urlencoding_decode(raw) IN IF d.ok THEN d.val ELSE raw)
        ELSE raw

\* Lines 133-148: the for loop over params.split('&') from fragment k on.
\* A fragment holding "token" with fewer than two '='-separated parts does
\* not break the loop; the first one with two or more does.
RECURSIVE scan_params(_, _)
scan_params(frags, k) ==
    IF k > Len(frags) THEN None
    ELSE IF /\ contains(to_lowercase(frags[k]), sToken)
            /\ Len(split(frags[k], "=")) >= 2
         THEN Some(token_value(split(frags[k], "=")))
    ELSE scan_params(frags, k + 1)

\* Mutant of extract: the URL is not looked at.
extract_any_url(request) ==
    IF /\ IsSome(request.post_data)
       /\ growtopia_token_regex_is_match(Unwrap(request.post_data))
    THEN scan_params(split(Unwrap(request.post_data), "&"), 1)
    ELSE None

\* Lines 129-151: the value one request stores in the slot, None when the
\* request leaves the slot alone.
extract(request) ==
    IF /\ contains(request.url, sGrowtopiaGameCom)
       /\ contains(request.url, sLogin)
       /\ IsSome(request.post_data)
       /\ growtopia_token_regex_is_match(Unwrap(request.post_data))
    THEN scan_params(split(Unwrap(request.post_data), "&"), 1)
    ELSE None

\* ------------------------------------------------------------------------
\* Random identifiers (lines 56-61, 170-179)
\* ------------------------------------------------------------------------

\* Mutant of Hex2: the width is left out ({:X}).
Hex2_unpadded(b) ==
    IF b < 16 THEN <<HexDigits[b + 1]>>
    ELSE <<HexDigits[(b \div 16) + 1], HexDigits[(b % 16) + 1]>>

\* format!("{:02X}", b) for a byte b.
Hex2(b) == <<HexDigits[(b \div 16) + 1], HexDigits[(b % 16) + 1]>>

\* Vec<String>::join(sep)
RECURSIVE join(_, _)
join(parts, sep) ==
    IF Len(parts) = 0 THEN <<>>
    ELSE IF Len(parts) = 1 THEN parts[1]
    ELSE parts[1] \o sep \o join(Tail(parts), sep)

\* generate_random_mac_address for the six bytes gen_range(0..=255) drew.
generate_random_mac_address(draws) ==
    join([i \in 1..6 |-> Hex2(draws[i])], <<":">>)

\* generate_rid for the sixteen bytes gen_range(0..=255) drew; collect
\* concatenates the pieces.
generate_rid(draws) == join([i \in 1..16 |-> Hex2(draws[i])], <<>>)

\* format!("{:X}", d) for d in 0..15.
Hex1(d) == <<HexDigits[d + 1]>>

\* generate_random_hex(length) for the values gen_range(0..16) drew.
generate_random_hex(length, draws) ==
    join([i \in 1..length |-> Hex1(draws[i])], <<>>)

\* The Chrome versions that tell the five user agents of uas apart.
uas == <<"Chrome/91.0.4472.124", "Chrome/92.0.4515.107", "Chrome/93.0.4577.63",
         "Chrome/94.0.4606.81", "Chrome/95.0.4638.54">>

\* generate_random_user_agent for the index gen_range(0..uas.len()) drew.
generate_random_user_agent(draw) == uas[draw + 1]

\* The draws of the random generator that the model follows.
MacDraws == {<<255, 16, 9, 171, 1, 160>>}
UaDraws == {0, 4}

\* thread_rng: the values successive gen_range calls return are
\* (a * i + b) reduced to the range, for a in RngA and b in RngB.
RngA == {0, 1, 3, 7, 16, 17, 85}
RngB == {0, 8, 9, 15, 100, 160, 255}
thread_rng(a, b, range) == [i \in 1..16 |-> (a * i + b) % range]

\* The longest string asked of generate_random_hex (bound of the model).
MaxHexLen == 4

\* ------------------------------------------------------------------------
\* Inputs
\* ------------------------------------------------------------------------

sHttps == <<"h","t","t","p","s",":","/","/">>
\* https://www.growtopiagame.com/google/login (line 255)
UrlGrowtopiaLogin ==
    sHttps \o <<"w","w","w",".">> \o sGrowtopiaGameCom
           \o <<"/","g","o","o","g","l","e","/">> \o sLogin
\* https://www.growtopiagame.com/
UrlGrowtopiaHome == sHttps \o <<"w","w","w",".">> \o sGrowtopiaGameCom \o <<"/">>
\* https://accounts.google.com/signin (line 185, shortened)
UrlGoogleSignin ==
    sHttps \o <<"a","c","c","o","u","n","t","s",".","g","o","o","g","l","e",
                ".","c","o","m","/","s","i","g","n","i","n">>
\* https://accounts.google.com/login
UrlGoogleLogin ==
    sHttps \o <<"a","c","c","o","u","n","t","s",".","g","o","o","g","l","e",
                ".","c","o","m","/">> \o sLogin

\* growtopia_token=abc%20def
BodyTokenAbcDef ==
    sGrowtopia \o <<"_">> \o sToken \o <<"=","a","b","c","%","2","0","d","e","f">>
\* growtopia=1&token=xyz
BodyTokenXyz == sGrowtopia \o <<"=","1","&">> \o sToken \o <<"=","x","y","z">>
\* a=1&my_token=abc%20def, the body of the specification's example
BodyMyToken ==
    <<"a","=","1","&","m","y","_">> \o sToken
        \o <<"=","a","b","c","%","2","0","d","e","f">>

\* The bodies of requests are up to MaxFrags of these fragments, joined
\* by '&' (bound of the model).
MaxFrags == 2

Fragments ==
    << <<"a","=","1">>,                                             \* a=1
       <<"o","t","h","e","r","=","x","y","z">>,                     \* other=xyz
       <<"m","y","_">> \o sToken
           \o <<"=","a","b","c","%","2","0","d","e","f">>,          \* my_token=abc%20def
       sGrowtopia \o <<"=","1">>,                                   \* growtopia=1
       <<"G","r","o","w","T","o","p","i","a","_","T","o","k","e","n",
         "=","a","=","b">>,                                         \* GrowTopia_Token=a=b
       <<"x","=">> \o sToken,                                       \* x=token
       sToken,                                                      \* token
       sToken \o <<"=","%","F","F","%","4","1">>,                    \* token=%FF%41
       sToken \o <<"=","%","z","z","%","4","1","%","4">>,            \* token=%zz%41%4
       sGrowtopia \o <<"=","\n">> >>                                \* growtopia=<LF>

Urls == <<UrlGrowtopiaLogin, UrlGrowtopiaHome, UrlGoogleLogin, UrlGoogleSignin>>

\* The fragment numbers of body number b >= 1: the bodies are numbered by
\* length, then in the order of Fragments.
RECURSIVE BodyFragments(_)
BodyFragments(b) ==
    IF b = 0 THEN <<>>
    ELSE LET d == ((b - 1) % Len(Fragments)) + 1
         IN  Append(BodyFragments((b - d) \div Len(Fragments)), d)

\* The number of bodies of 1..n fragments.
RECURSIVE BodyCount(_)
BodyCount(n) ==
    IF n = 0 THEN 0 ELSE Len(Fragments) * (1 + BodyCount(n - 1))

\* Body number b: None for 0, else the fragments joined by '&'.
Body(b) ==
    IF b = 0 THEN None
    ELSE LET f == BodyFragments(b)
         IN  Some(join([i \in 1..Len(f) |-> Fragments[f[i]]], <<"&">>))

\* The requests the browser may announce while an attempt runs.
RequestCatalog ==
    << [url |-> UrlGrowtopiaLogin, post_data |-> Some(BodyTokenAbcDef)],
       [url |-> UrlGrowtopiaLogin, post_data |-> Some(BodyTokenXyz)],
       [url |-> UrlGoogleSignin,   post_data |-> None] >>

\* The requests beyond the catalog: every url of Urls with every body.
GeneratedRequests ==
    (Len(RequestCatalog) + 1)
        ..(Len(RequestCatalog) + Len(Urls) * (1 + BodyCount(MaxFrags)))

\* The request (EventRequestWillBeSent.request) that number k stands for.
Request(k) ==
    IF k <= Len(RequestCatalog) THEN RequestCatalog[k]
    ELSE LET n == k - Len(RequestCatalog) - 1
         IN  [url |-> Urls[(n % Len(Urls)) + 1],
              post_data |-> Body(n \div Len(Urls))]

\* The CDP events the browser may emit: a request about to be sent, or an
\* event of another kind.
CdpEvents ==
    {[kind |-> "RequestWillBeSent", request |-> r] : r \in 1..Len(RequestCatalog)}
        \cup {[kind |-> "Other", request |-> 0]}

\* The recovery_email values of LoginCredentials that the flow tells apart.
RecoveryEmails == {None, Some(<<"r","@","x">>)}

\* Request events the browser emits during one attempt (bounds of the
\* model, one for each specification).
MaxEvents == 2
MaxFairEvents == 1
MaxTapEvents == 102

\* mpsc::channel(100)
QueueCap == 100

\* ------------------------------------------------------------------------
\* State
\* ------------------------------------------------------------------------

VARIABLES
    chromiumoxide,    \* the build has feature "chromiumoxide" (lines 77, 88)
    credentials,      \* the LoginCredentials of the attempt
    budget,           \* request events the browser emits in the attempt, at most
    pc,               \* where perform_google_login is
    token,            \* the slot Arc<Mutex<Option<String>>> (line 90)
    lock,             \* who holds the slot's Mutex: "free", "token_task", "main"
    chan,             \* the messages in mpsc::channel(100) (line 91)
    tx_alive,         \* request_tx exists
    rx_alive,         \* request_rx exists
    emitted,          \* request events handle_event was called with so far
    handed,           \* history: the request events handle_event got
    handler_ret,      \* what handle_event returned last
    handle,           \* the task of lines 118-124
    handle_abort,     \* handle.abort() was called
    token_task,       \* the task of lines 126-153, by its position
    token_task_abort, \* token_task.abort() was called
    request,          \* token_task's local request (Option)
    token_value_,     \* token_task's local token_value (Option)
    processed,        \* history: the events token_task took from the channel
    login_result,     \* what google_login_flow returned (Option)
    captured_token,   \* the local of line 159
    returned,         \* the LoginResults returned to the caller, in order
    browser,          \* "none", "open", "closed" (close() returned), "dropped"
    optional_found,   \* history: an optional element was found
    generated         \* what a generator called on its own returned last (Option)

scenVars == <<chromiumoxide, credentials, budget, generated>>
orchVars == <<pc, login_result, captured_token, returned, browser, optional_found>>
slotVars == <<token, lock>>
chanVars == <<chan, tx_alive, rx_alive, emitted, handed, handler_ret>>
handleVars == <<handle, handle_abort>>
taskVars == <<token_task, token_task_abort, request, token_value_, processed>>
vars == <<scenVars, orchVars, slotVars, chanVars, handleVars, taskVars>>

Ok == [ok |-> TRUE, err |-> ""]
Err(e) == [ok |-> FALSE, err |-> e]

\* The error texts of the source; {e} stands for the library's error.
ErrBackend == "Google login backend not enabled. Enable feature 'chromiumoxide' in Cargo.toml"
ErrNoToken == "Login successful but no token captured"
ErrOpenLoginPage == "[Google Login] Failed to open login page: {e}"
ErrEmailNotFound == "[Google Login] Email input not found"
ErrEnterEmail == "[Google Login] Failed to enter email: {e}"
ErrClickNext == "[Google Login] Failed to click next button: {e}"
ErrPasswordNotFound == "[Google Login] Password input not found"
ErrEnterPassword == "[Google Login] Failed to enter password: {e}"
ErrClickPasswordNext == "[Google Login] Failed to click password next button: {e}"
ErrNavigateGrowtopia == "[Growtopia] Failed to navigate to Growtopia login: {e}"

LoginResult(success, tok, ua, mac, error) ==
    [success |-> success, token |-> tok, user_agent |-> ua,
     mac_address |-> mac, error |-> error]

\* Mutant of derive_result: every failure is reported as "no token".
derive_result_generic_error(captured, result, ua, mac) ==
    IF IsSome(captured)
    THEN LoginResult(TRUE, Some(Unwrap(captured)),
                     Some(generate_random_user_agent(ua)),
                     Some(generate_random_mac_address(mac)), None)
    ELSE LoginResult(FALSE, None, None, None, Some(ErrNoToken))

\* Mutant of derive_result: a driver that returned Ok makes the attempt a
\* success.
derive_result_ok_is_success(captured, result, ua, mac) ==
    IF IsSome(captured) \/ result.ok
    THEN LoginResult(TRUE, captured,
                     Some(generate_random_user_agent(ua)),
                     Some(generate_random_mac_address(mac)), None)
    ELSE LoginResult(FALSE, None, None, None, Some(result.err))

\* Mutant of derive_result: the driver's failure is looked at before the
\* slot.
derive_result_error_first(captured, result, ua, mac) ==
    IF ~result.ok
    THEN LoginResult(FALSE, None, None, None, Some(result.err))
    ELSE IF IsSome(captured)
    THEN LoginResult(TRUE, Some(Unwrap(captured)),
                     Some(generate_random_user_agent(ua)),
                     Some(generate_random_mac_address(mac)), None)
    ELSE LoginResult(FALSE, None, None, None, Some(ErrNoToken))

\* Lines 160-166: the LoginResult for the slot value read at line 159 and
\* the driver's result; ua and mac are the random draws.
derive_result(captured, result, ua, mac) ==
    IF IsSome(captured)
    THEN LoginResult(TRUE, Some(Unwrap(captured)),
                     Some(generate_random_user_agent(ua)),
                     Some(generate_random_mac_address(mac)), None)
    ELSE IF ~result.ok
    THEN LoginResult(FALSE, None, None, None, Some(result.err))
    ELSE LoginResult(FALSE, None, None, None, Some(ErrNoToken))

Init ==
    /\ chromiumoxide \in BOOLEAN
    /\ credentials \in {[recovery_email |-> r] : r \in RecoveryEmails}
    /\ budget = MaxEvents
    /\ pc = "start"
    /\ token = None
    /\ lock = "free"
    /\ chan = <<>>
    /\ tx_alive = FALSE
    /\ rx_alive = FALSE
    /\ emitted = 0
    /\ handed = <<>>
    /\ handler_ret = "none"
    /\ handle = "unspawned"
    /\ handle_abort = FALSE
    /\ token_task = "unspawned"
    /\ token_task_abort = FALSE
    /\ request = None
    /\ token_value_ = None
    /\ processed = <<>>
    /\ login_result = None
    /\ captured_token = None
    /\ returned = <<>>
    /\ browser = "none"
    /\ optional_found = FALSE
    /\ generated = None

\* ------------------------------------------------------------------------
\* perform_google_login up to the driver (lines 76-126)
\* ------------------------------------------------------------------------

\* A panic of the function (an unwrap on Err): the function's locals are
\* dropped, no LoginResult is returned.  Tasks already spawned stay.
Panic ==
    /\ pc' = "panicked"
    /\ browser' = IF browser = "none" THEN "none" ELSE "dropped"
    /\ UNCHANGED <<login_result, captured_token, returned, optional_found>>

\* Lines 77-91: without the feature the function returns at once; with it,
\* the slot and the channel are created.
Enter ==
    /\ pc = "start"
    /\ IF chromiumoxide
       THEN /\ pc' = "build_config"
            /\ tx_alive' = TRUE
            /\ rx_alive' = TRUE
            /\ UNCHANGED returned
       ELSE /\ pc' = "done"
            /\ returned' = Append(returned,
                   LoginResult(FALSE, None, None, None, Some(ErrBackend)))
            /\ UNCHANGED <<tx_alive, rx_alive>>
    /\ UNCHANGED <<login_result, captured_token, browser, optional_found>>
    /\ UNCHANGED <<chan, emitted, handed, handler_ret>>
    /\ UNCHANGED <<scenVars, slotVars, handleVars, taskVars>>

\* Lines 93-112: BrowserConfig ... build().unwrap()
BuildConfig(ok) ==
    /\ pc = "build_config"
    /\ IF ok
       THEN /\ pc' = "launch"
            /\ UNCHANGED <<login_result, captured_token, returned, browser,
                           optional_found, chanVars>>
       ELSE /\ Panic
            /\ tx_alive' = FALSE
            /\ rx_alive' = FALSE
            /\ UNCHANGED <<chan, emitted, handed, handler_ret>>
    /\ UNCHANGED <<scenVars, slotVars, handleVars, taskVars>>

\* Lines 114-124: launch_with_handler(...).await.unwrap(), then the spawn
\* of the event-loop task, which owns browser_handler and with it the
\* TokenHandler and request_tx.
Launch(ok) ==
    /\ pc = "launch"
    /\ IF ok
       THEN /\ pc' = "new_page"
            /\ browser' = "open"
            /\ handle' = "running"
            /\ UNCHANGED <<login_result, captured_token, returned,
                           optional_found, chanVars, handle_abort>>
       ELSE /\ Panic
            /\ tx_alive' = FALSE
            /\ rx_alive' = FALSE
            /\ UNCHANGED <<chan, emitted, handed, handler_ret, handleVars>>
    /\ UNCHANGED <<scenVars, slotVars, taskVars>>

\* Lines 125-153: browser.new_page("about:blank").await.unwrap(), then the
\* spawn of token_task, which owns request_rx.
NewPage(ok) ==
    /\ pc = "new_page"
    /\ IF ok
       THEN /\ pc' = "goto_provider"
            /\ token_task' = "recv"
            /\ UNCHANGED <<login_result, captured_token, returned, browser,
                           optional_found, chanVars>>
            /\ UNCHANGED <<token_task_abort, request, token_value_, processed>>
       ELSE /\ Panic
            /\ rx_alive' = FALSE
            /\ chan' = <<>>
            /\ UNCHANGED <<tx_alive, emitted, handed, handler_ret, taskVars>>
    /\ UNCHANGED <<scenVars, slotVars, handleVars>>

\* ------------------------------------------------------------------------
\* google_login_flow and connect_to_growtopia (lines 182-261), run inside
\* perform_google_login at line 154.  Every awaited page or element call
\* ends Ok or Err; a fixed sleep is part of the step before it.
\* ------------------------------------------------------------------------

driverFrame ==
    UNCHANGED <<scenVars, slotVars, chanVars, handleVars, taskVars,
                captured_token, returned, browser>>

\* The driver goes on with step `to`.
Proceed(to) ==
    /\ pc' = to
    /\ UNCHANGED <<login_result, optional_found>>
    /\ driverFrame

\* An optional element was found; the driver goes on with step `to`.
Found(to) ==
    /\ pc' = to
    /\ optional_found' = TRUE
    /\ UNCHANGED login_result
    /\ driverFrame

\* The driver returns res to line 154; line 155 sleeps next.
Return(res) ==
    /\ pc' = "settle"
    /\ login_result' = Some(res)
    /\ UNCHANGED optional_found
    /\ driverFrame

\* Lines 226-227: the recovery step runs for a non-empty recovery_email.
AfterPassword ==
    IF /\ IsSome(credentials.recovery_email)
       /\ Unwrap(credentials.recovery_email) # <<>>
    THEN "find_recovery"
    ELSE "connect"

\* Lines 184-188
GotoProvider(ok) ==
    /\ pc = "goto_provider"
    /\ IF ok THEN Proceed("find_email") ELSE Return(Err(ErrOpenLoginPage))

\* Lines 190-193
FindEmail(ok) ==
    /\ pc = "find_email"
    /\ IF ok THEN Proceed("enter_email") ELSE Return(Err(ErrEmailNotFound))

\* Lines 194-199
EnterEmail(ok) ==
    /\ pc = "enter_email"
    /\ IF ok THEN Proceed("find_identifier_next") ELSE Return(Err(ErrEnterEmail))

\* Line 200
FindIdentifierNext(found) ==
    /\ pc = "find_identifier_next"
    /\ IF found THEN Found("click_identifier_next") ELSE Proceed("find_password")

\* Lines 201-205: the click's error is returned with `?`.
ClickIdentifierNext(ok) ==
    /\ pc = "click_identifier_next"
    /\ IF ok THEN Proceed("find_password") ELSE Return(Err(ErrClickNext))

\* Mutant of FindPassword: the failure is noted and the driver goes on.
FindPassword_goes_on(ok) ==
    /\ pc = "find_password"
    /\ IF ok THEN Proceed("enter_password")
       ELSE /\ pc' = "enter_password"
            /\ login_result' = Some(Err(ErrPasswordNotFound))
            /\ UNCHANGED optional_found
            /\ driverFrame

\* Lines 208-211
FindPassword(ok) ==
    /\ pc = "find_password"
    /\ IF ok THEN Proceed("enter_password") ELSE Return(Err(ErrPasswordNotFound))

\* Lines 212-217
EnterPassword(ok) ==
    /\ pc = "enter_password"
    /\ IF ok THEN Proceed("find_password_next") ELSE Return(Err(ErrEnterPassword))

\* Line 218
FindPasswordNext(found) ==
    /\ pc = "find_password_next"
    /\ IF found THEN Found("click_password_next") ELSE Proceed(AfterPassword)

\* Lines 219-223: the click's error is returned with `?`.
ClickPasswordNext(ok) ==
    /\ pc = "click_password_next"
    /\ IF ok THEN Proceed(AfterPassword) ELSE Return(Err(ErrClickPasswordNext))

\* Lines 228-231
FindRecovery(found) ==
    /\ pc = "find_recovery"
    /\ IF found THEN Found("enter_recovery") ELSE Proceed("connect")

\* Lines 232-236: let _ = ...; the outcome is dropped.
EnterRecovery(ok) ==
    /\ pc = "enter_recovery"
    /\ ok \in BOOLEAN
    /\ Proceed("find_recovery_next")

\* Line 237
FindRecoveryNext(found) ==
    /\ pc = "find_recovery_next"
    /\ IF found THEN Found("click_recovery_next") ELSE Proceed("connect")

\* Lines 238-239: let _ = ...; the outcome is dropped.
ClickRecoveryNext(ok) ==
    /\ pc = "click_recovery_next"
    /\ ok \in BOOLEAN
    /\ Proceed("connect")

\* Lines 245-248 and 252-261
ConnectToGrowtopia(ok) ==
    /\ pc = "connect"
    /\ IF ok THEN Return(Ok) ELSE Return(Err(ErrNavigateGrowtopia))

\* ------------------------------------------------------------------------
\* perform_google_login after the driver (lines 155-166)
\* ------------------------------------------------------------------------

\* Lines 155-156: the sleep ends and handle.abort() is called.  abort()
\* only marks the task; a task that has finished is not changed by it.
AbortHandle ==
    /\ pc = "settle"
    /\ pc' = "abort_token_task"
    /\ handle_abort' = TRUE
    /\ UNCHANGED <<handle, login_result, captured_token, returned, browser,
                   optional_found>>
    /\ UNCHANGED <<scenVars, slotVars, chanVars, taskVars>>

\* Line 157: token_task.abort()
AbortTokenTask ==
    /\ pc = "abort_token_task"
    /\ pc' = "close"
    /\ token_task_abort' = TRUE
    /\ UNCHANGED <<token_task, request, token_value_, processed>>
    /\ UNCHANGED <<login_result, captured_token, returned, browser,
                   optional_found>>
    /\ UNCHANGED <<scenVars, slotVars, chanVars, handleVars>>

\* Line 158: let _ = browser.close().await; close() has been called and
\* has returned, and its outcome (Ok or Err) is dropped.
CloseBrowser(ok) ==
    /\ pc = "close"
    /\ ok \in BOOLEAN
    /\ pc' = "lock"
    /\ browser' = "closed"
    /\ UNCHANGED <<login_result, captured_token, returned, optional_found>>
    /\ UNCHANGED <<scenVars, slotVars, chanVars, handleVars, taskVars>>

\* Line 159: token.lock().await completes once the Mutex is free.
MainLock ==
    /\ pc = "lock"
    /\ lock = "free"
    /\ lock' = "main"
    /\ pc' = "read"
    /\ UNCHANGED <<token, login_result, captured_token, returned, browser,
                   optional_found>>
    /\ UNCHANGED <<scenVars, chanVars, handleVars, taskVars>>

\* Mutant of ReadAndReturn: the guard outlives the statement of line 159.
ReadAndReturn_guard_kept(ua, mac) ==
    /\ pc = "read"
    /\ captured_token' = token
    /\ returned' = Append(returned,
           derive_result(token, Unwrap(login_result), ua, mac))
    /\ pc' = "done"
    /\ UNCHANGED <<token, lock, login_result, browser, optional_found>>
    /\ UNCHANGED <<scenVars, chanVars, handleVars, taskVars>>

\* Lines 159-166: .clone(), the guard is dropped at the end of the
\* statement, and the LoginResult is built and returned (no await between).
ReadAndReturn(ua, mac) ==
    /\ pc = "read"
    /\ captured_token' = token
    /\ lock' = "free"
    /\ returned' = Append(returned,
           derive_result(token, Unwrap(login_result), ua, mac))
    /\ pc' = "done"
    /\ UNCHANGED <<token, login_result, browser, optional_found>>
    /\ UNCHANGED <<scenVars, chanVars, handleVars, taskVars>>

\* ------------------------------------------------------------------------
\* The event-loop task and TokenHandler::handle_event (lines 47-54, 118-124)
\* ------------------------------------------------------------------------

\* Mutant of try_send: the capacity is not looked at.
try_send_unbounded(q, receiver, msg) ==
    IF ~receiver THEN [chan |-> q, res |-> "Closed"]
    ELSE [chan |-> Append(q, msg), res |-> "Ok"]

\* mpsc::Sender::try_send on a channel holding q: the message is appended
\* when the receiver exists and fewer than QueueCap messages wait; else the
\* channel is left as it is and the call reports Closed or Full.
try_send(q, receiver, msg) ==
    IF ~receiver THEN [chan |-> q, res |-> "Closed"]
    ELSE IF Len(q) >= QueueCap THEN [chan |-> q, res |-> "Full"]
    ELSE [chan |-> Append(q, msg), res |-> "Ok"]

\* Lines 48-53: handle_event for one event the browser emits while the
\* event loop is driven.  A request event is cloned into the channel with
\* try_send, whose outcome is dropped (let _); the handler returns Ok(()).
\* The id numbers the request events in the order the handler gets them.
HandleEvent(ev) ==
    /\ handle = "running"
    /\ IF ev.kind = "RequestWillBeSent"
       THEN LET network_event == [id |-> emitted + 1, request |-> ev.request]
                sent == try_send(chan, rx_alive, network_event)
            IN  /\ emitted < budget
                /\ emitted' = emitted + 1
                /\ chan' = sent.chan
                /\ handed' = Append(handed, network_event)
       ELSE UNCHANGED <<chan, handed, emitted>>
    /\ handler_ret' = "Ok"
    /\ UNCHANGED <<tx_alive, rx_alive>>
    /\ UNCHANGED <<scenVars, orchVars, slotVars, handleVars, taskVars>>

\* Lines 119-123: the stream yields an error or ends, and the task
\* finishes on its own; browser_handler is dropped, request_tx with it.
HandlerStreamEnds ==
    /\ handle = "running"
    /\ handle' = "finished"
    /\ tx_alive' = FALSE
    /\ UNCHANGED <<handle_abort, chan, rx_alive, emitted, handed, handler_ret>>
    /\ UNCHANGED <<scenVars, orchVars, slotVars, taskVars>>

\* The abort of line 156 takes effect: the runtime drops the task at a
\* point where it is not being polled.
HandlerCancelled ==
    /\ handle = "running"
    /\ handle_abort
    /\ handle' = "cancelled"
    /\ tx_alive' = FALSE
    /\ UNCHANGED <<handle_abort, chan, rx_alive, emitted, handed, handler_ret>>
    /\ UNCHANGED <<scenVars, orchVars, slotVars, taskVars>>

\* ------------------------------------------------------------------------
\* token_task (lines 126-153)
\* ------------------------------------------------------------------------

\* Mutant of recv: the newest message is taken.
recv_newest(q) == [msg |-> q[Len(q)], rest |-> SubSeq(q, 1, Len(q) - 1)]

\* mpsc::Receiver::recv on a channel holding the non-empty q.
recv(q) == [msg |-> Head(q), rest |-> Tail(q)]

\* Line 128: recv().await yields the oldest message.
TaskRecv ==
    /\ token_task = "recv"
    /\ chan # <<>>
    /\ LET r == recv(chan)
       IN  /\ request' = Some(r.msg)
           /\ chan' = r.rest
           /\ processed' = Append(processed, r.msg)
    /\ token_task' = "filter"
    /\ UNCHANGED <<token_task_abort, token_value_>>
    /\ UNCHANGED <<tx_alive, rx_alive, emitted, handed, handler_ret>>
    /\ UNCHANGED <<scenVars, orchVars, slotVars, handleVars>>

\* Line 128: recv().await yields None once the channel is empty and the
\* sender is gone; the loop ends and the task finishes on its own.
TaskRecvNone ==
    /\ token_task = "recv"
    /\ chan = <<>>
    /\ ~tx_alive
    /\ token_task' = "finished"
    /\ rx_alive' = FALSE
    /\ UNCHANGED <<token_task_abort, request, token_value_, processed>>
    /\ UNCHANGED <<chan, tx_alive, emitted, handed, handler_ret>>
    /\ UNCHANGED <<scenVars, orchVars, slotVars, handleVars>>

\* Lines 129-142: the filters and the parse of one request.
TaskFilter ==
    /\ token_task = "filter"
    /\ LET v == extract(Request(Unwrap(request).request))
       IN  IF IsSome(v)
           THEN /\ token_value_' = v
                /\ token_task' = "lock"
                /\ UNCHANGED request
           ELSE /\ token_task' = "recv"
                /\ request' = None
                /\ UNCHANGED token_value_
    /\ UNCHANGED <<token_task_abort, processed>>
    /\ UNCHANGED <<scenVars, orchVars, slotVars, chanVars, handleVars>>

\* Line 143: token.lock().await completes once the Mutex is free.
TaskLock ==
    /\ token_task = "lock"
    /\ lock = "free"
    /\ lock' = "token_task"
    /\ token_task' = "write"
    /\ UNCHANGED <<token, token_task_abort, request, token_value_, processed>>
    /\ UNCHANGED <<scenVars, orchVars, chanVars, handleVars>>

\* Mutant of TaskWrite: a slot that holds a value is left as it is.
TaskWrite_first_wins ==
    /\ token_task = "write"
    /\ token' = IF token = None THEN token_value_ ELSE token
    /\ lock' = "free"
    /\ token_task' = "recv"
    /\ request' = None
    /\ token_value_' = None
    /\ UNCHANGED <<token_task_abort, processed>>
    /\ UNCHANGED <<scenVars, orchVars, chanVars, handleVars>>

\* Mutant of TaskWrite: the guard is kept after the write.
TaskWrite_guard_kept ==
    /\ token_task = "write"
    /\ token' = token_value_
    /\ token_task' = "recv"
    /\ request' = None
    /\ token_value_' = None
    /\ UNCHANGED <<lock, token_task_abort, processed>>
    /\ UNCHANGED <<scenVars, orchVars, chanVars, handleVars>>

\* Lines 144-145: the write; break leaves the block and drops the guard.
TaskWrite ==
    /\ token_task = "write"
    /\ token' = token_value_
    /\ lock' = "free"
    /\ token_task' = "recv"
    /\ request' = None
    /\ token_value_' = None
    /\ UNCHANGED <<token_task_abort, processed>>
    /\ UNCHANGED <<scenVars, orchVars, chanVars, handleVars>>

\* The abort of line 157 takes effect at an await (recv or lock): the
\* task is dropped, and with it request_rx and the messages still queued.
TaskCancelled ==
    /\ token_task \in {"recv", "lock"}
    /\ token_task_abort
    /\ token_task' = "cancelled"
    /\ rx_alive' = FALSE
    /\ chan' = <<>>
    /\ request' = None
    /\ token_value_' = None
    /\ UNCHANGED <<token_task_abort, processed>>
    /\ UNCHANGED <<tx_alive, emitted, handed, handler_ret>>
    /\ UNCHANGED <<scenVars, orchVars, slotVars, handleVars>>

\* ------------------------------------------------------------------------
\* Specifications
\* ------------------------------------------------------------------------

Prelude ==
    \/ Enter
    \/ \E ok \in BOOLEAN : BuildConfig(ok)
    \/ \E ok \in BOOLEAN : Launch(ok)
    \/ \E ok \in BOOLEAN : NewPage(ok)

Driver ==
    \/ \E ok \in BOOLEAN : GotoProvider(ok)
    \/ \E ok \in BOOLEAN : FindEmail(ok)
    \/ \E ok \in BOOLEAN : EnterEmail(ok)
    \/ \E found \in BOOLEAN : FindIdentifierNext(found)
    \/ \E ok \in BOOLEAN : ClickIdentifierNext(ok)
    \/ \E ok \in BOOLEAN : FindPassword(ok)
    \/ \E ok \in BOOLEAN : EnterPassword(ok)
    \/ \E found \in BOOLEAN : FindPasswordNext(found)
    \/ \E ok \in BOOLEAN : ClickPasswordNext(ok)
    \/ \E found \in BOOLEAN : FindRecovery(found)
    \/ \E ok \in BOOLEAN : EnterRecovery(ok)
    \/ \E found \in BOOLEAN : FindRecoveryNext(found)
    \/ \E ok \in BOOLEAN : ClickRecoveryNext(ok)
    \/ \E ok \in BOOLEAN : ConnectToGrowtopia(ok)

Finish ==
    \/ AbortHandle
    \/ AbortTokenTask
    \/ \E ok \in BOOLEAN : CloseBrowser(ok)
    \/ MainLock
    \/ \E ua \in UaDraws : \E mac \in MacDraws : ReadAndReturn(ua, mac)

EventLoop ==
    \/ \E ev \in CdpEvents : HandleEvent(ev)
    \/ HandlerStreamEnds
    \/ HandlerCancelled

TokenTask ==
    \/ TaskRecv
    \/ TaskRecvNone
    \/ TaskFilter
    \/ TaskLock
    \/ TaskWrite
    \/ TaskCancelled

Next == Prelude \/ Driver \/ Finish \/ EventLoop \/ TokenTask

Spec == Init /\ [][Next]_vars

\* Init with the request events of FairSpec.
FairInit ==
    /\ chromiumoxide \in BOOLEAN
    /\ credentials \in {[recovery_email |-> r] : r \in RecoveryEmails}
    /\ budget = MaxFairEvents
    /\ pc = "start"
    /\ token = None
    /\ lock = "free"
    /\ chan = <<>>
    /\ tx_alive = FALSE
    /\ rx_alive = FALSE
    /\ emitted = 0
    /\ handed = <<>>
    /\ handler_ret = "none"
    /\ handle = "unspawned"
    /\ handle_abort = FALSE
    /\ token_task = "unspawned"
    /\ token_task_abort = FALSE
    /\ request = None
    /\ token_value_ = None
    /\ processed = <<>>
    /\ login_result = None
    /\ captured_token = None
    /\ returned = <<>>
    /\ browser = "none"
    /\ optional_found = FALSE
    /\ generated = None

\* The function is one task that the runtime keeps polling, and each call
\* it awaits returns; token_task, once it holds the Mutex, runs on to the
\* end of the block that drops the guard (no await in between).
FairSpec ==
    /\ FairInit
    /\ [][Next]_vars
    /\ WF_vars(Prelude \/ Driver \/ Finish)
    /\ WF_vars(TaskWrite)

\* ------------------------------------------------------------------------
\* ExtractSpec: token_task holds one request out of GeneratedRequests, taken
\* from the channel while the driver runs, either as the first request of
\* the attempt or after the request with BodyTokenXyz was processed.
\* ------------------------------------------------------------------------

ExtractInit ==
    \E k \in GeneratedRequests : \E prior \in BOOLEAN :
        LET before == IF prior THEN <<[id |-> 1, request |-> 2]>> ELSE <<>>
            ev == [id |-> Len(before) + 1, request |-> k]
        IN  /\ chromiumoxide = TRUE
            /\ credentials = [recovery_email |-> None]
            /\ budget = MaxEvents
            /\ pc = "goto_provider"
            /\ token = IF prior THEN extract(Request(2)) ELSE None
            /\ lock = "free"
            /\ chan = <<>>
            /\ tx_alive = TRUE
            /\ rx_alive = TRUE
            /\ emitted = Len(before) + 1
            /\ handed = Append(before, ev)
            /\ handler_ret = "Ok"
            /\ handle = "running"
            /\ handle_abort = FALSE
            /\ token_task = "filter"
            /\ token_task_abort = FALSE
            /\ request = Some(ev)
            /\ token_value_ = None
            /\ processed = Append(before, ev)
            /\ login_result = None
            /\ captured_token = None
            /\ returned = <<>>
            /\ browser = "open"
            /\ optional_found = FALSE
            /\ generated = None

ExtractNext == TaskFilter \/ TaskLock \/ TaskWrite

ExtractSpec == ExtractInit /\ [][ExtractNext]_vars

\* ------------------------------------------------------------------------
\* TapSpec: the channel under load.  The driver has returned Ok before the
\* browser emitted a request; line 155 sleeps while the browser emits up to
\* MaxTapEvents requests that carry no token, and the aborts follow.
\* ------------------------------------------------------------------------

TapEvents ==
    {[kind |-> "RequestWillBeSent", request |-> 3], [kind |-> "Other", request |-> 0]}

TapInit ==
    /\ chromiumoxide = TRUE
    /\ credentials = [recovery_email |-> None]
    /\ budget = MaxTapEvents
    /\ pc = "settle"
    /\ token = None
    /\ lock = "free"
    /\ chan = <<>>
    /\ tx_alive = TRUE
    /\ rx_alive = TRUE
    /\ emitted = 0
    /\ handed = <<>>
    /\ handler_ret = "none"
    /\ handle = "running"
    /\ handle_abort = FALSE
    /\ token_task = "recv"
    /\ token_task_abort = FALSE
    /\ request = None
    /\ token_value_ = None
    /\ processed = <<>>
    /\ login_result = Some(Ok)
    /\ captured_token = None
    /\ returned = <<>>
    /\ browser = "open"
    /\ optional_found = FALSE
    /\ generated = None

TapNext ==
    \/ \E ev \in TapEvents : HandleEvent(ev)
    \/ HandlerCancelled
    \/ TaskRecv
    \/ TaskRecvNone
    \/ TaskFilter
    \/ TaskCancelled
    \/ AbortHandle
    \/ AbortTokenTask

TapSpec == TapInit /\ [][TapNext]_vars

\* ------------------------------------------------------------------------
\* GenSpec: the public generators called on their own (lines 56-74).
\* ------------------------------------------------------------------------

GenInit ==
    /\ chromiumoxide = TRUE
    /\ credentials = [recovery_email |-> None]
    /\ budget = MaxEvents
    /\ pc = "start"
    /\ token = None
    /\ lock = "free"
    /\ chan = <<>>
    /\ tx_alive = FALSE
    /\ rx_alive = FALSE
    /\ emitted = 0
    /\ handed = <<>>
    /\ handler_ret = "none"
    /\ handle = "unspawned"
    /\ handle_abort = FALSE
    /\ token_task = "unspawned"
    /\ token_task_abort = FALSE
    /\ request = None
    /\ token_value_ = None
    /\ processed = <<>>
    /\ login_result = None
    /\ captured_token = None
    /\ returned = <<>>
    /\ browser = "none"
    /\ optional_found = FALSE
    /\ generated = None

genFrame ==
    /\ UNCHANGED <<chromiumoxide, credentials, budget>>
    /\ UNCHANGED <<orchVars, slotVars, chanVars, handleVars, taskVars>>

\* Lines 56-61
GenerateMac(a, b) ==
    /\ generated' = Some([fn |-> "generate_random_mac_address", length |-> 0,
                          out |-> generate_random_mac_address(thread_rng(a, b, 256))])
    /\ genFrame

\* Lines 63-67
GenerateRid(a, b) ==
    /\ generated' = Some([fn |-> "generate_rid", length |-> 0,
                          out |-> generate_rid(thread_rng(a, b, 256))])
    /\ genFrame

\* Lines 69-74
GenerateHex(length, a, b) ==
    /\ generated' = Some([fn |-> "generate_random_hex", length |-> length,
                          out |-> generate_random_hex(length, thread_rng(a, b, 16))])
    /\ genFrame

GenNext ==
    \/ \E a \in RngA : \E b \in RngB : GenerateMac(a, b)
    \/ \E a \in RngA : \E b \in RngB : GenerateRid(a, b)
    \/ \E length \in 0..MaxHexLen : \E a \in RngA : \E b \in RngB :
           GenerateHex(length, a, b)

GenSpec == GenInit /\ [][GenNext]_vars

\* ------------------------------------------------------------------------
\* Properties
\* ------------------------------------------------------------------------

Last(q) == q[Len(q)]

NoTokenResult == LoginResult(FALSE, None, None, None, Some(ErrNoToken))
FailureResult(e) == LoginResult(FALSE, None, None, None, Some(e))

\* token_task took no request from the channel that yields a token value.
NoProducingProcessed ==
    \A i \in 1..Len(processed) : extract(Request(processed[i].request)) = None

\* C1: when the result is derived (lines 159-166), it is fixed by the slot
\* value read at line 159 and the driver's result: a slot value gives
\* success with that token, a user agent and a MAC address and no error; an
\* empty slot and a driver error e give the failure with e verbatim; an empty
\* slot and a driver Ok give the "no token captured" failure.
C1_ResultDerivation ==
    (pc = "done" /\ chromiumoxide) =>
        /\ Len(returned) = 1
        /\ LET r == returned[1]
               d == Unwrap(login_result)
           IN  /\ IsSome(captured_token) =>
                     /\ r.success = TRUE
                     /\ r.token = captured_token
                     /\ IsSome(r.user_agent)
                     /\ IsSome(r.mac_address)
                     /\ r.error = None
               /\ (captured_token = None /\ ~d.ok) => r = FailureResult(d.err)
               /\ (captured_token = None /\ d.ok) => r = NoTokenResult

\* Witness of C1: a result derived from a slot value although the driver
\* failed.
C1_Witness ==
    /\ pc = "done"
    /\ chromiumoxide
    /\ returned[1].success
    /\ ~Unwrap(login_result).ok

\* C2 (as claimed): every way an attempt ends has returned exactly one
\* LoginResult.
C2_ExactlyOneResult ==
    /\ Len(returned) <= 1
    /\ pc \in {"done", "panicked"} => Len(returned) = 1

\* C3 (as claimed): whenever an attempt that launched the browser has ended
\* or has returned its LoginResult, the browser has been closed.
C3_ClosedBeforeReturn ==
    (browser # "none" /\ (pc \in {"done", "panicked"} \/ Len(returned) > 0))
        => browser = "closed"

\* C5 (as claimed): when the driver failed at the identifier input, the
\* result is the failure that names that step, whatever events arrived.
C5_IdentifierFailureAlwaysReported ==
    (pc = "done" /\ login_result = Some(Err(ErrEmailNotFound)))
        => returned = <<FailureResult(ErrEmailNotFound)>>

\* C5 (amended): when the driver failed at the identifier input, the result
\* is the failure that names that step if the slot read at line 159 is
\* empty, which it is whenever token_task took no token-yielding request;
\* if the slot holds a value the result is success with that value.
C5_IdentifierFailure ==
    (pc = "done" /\ login_result = Some(Err(ErrEmailNotFound))) =>
        /\ captured_token = None
               => returned = <<FailureResult(ErrEmailNotFound)>>
        /\ NoProducingProcessed => captured_token = None
        /\ IsSome(captured_token) =>
               /\ returned[1].success
               /\ returned[1].token = captured_token

\* Witness of C5: the identifier step failed, requests were processed, and
\* the failure is reported.
C5_Witness ==
    /\ pc = "done"
    /\ login_result = Some(Err(ErrEmailNotFound))
    /\ Len(processed) > 0
    /\ returned = <<FailureResult(ErrEmailNotFound)>>

\* C6: an attempt in which every mandatory step succeeded, no optional element was
\* found and token_task took no token-yielding request returns the "no token
\* captured" failure; and an attempt whose driver has started ends.
C6_NoTokenCaptured ==
    /\ []((/\ pc = "done"
           /\ chromiumoxide
           /\ ~optional_found
           /\ login_result = Some(Ok)
           /\ NoProducingProcessed)
             => returned = <<NoTokenResult>>)
    /\ (pc = "goto_provider") ~> (pc = "done")

\* Witness of C6: such an attempt, with requests processed, has ended.
C6_Witness ==
    /\ pc = "done"
    /\ login_result = Some(Ok)
    /\ ~optional_found
    /\ Len(processed) > 0
    /\ NoProducingProcessed
    /\ returned = <<NoTokenResult>>

\* C7: once the driver has returned, the attempt returns its LoginResult,
\* whatever the two tasks are doing when they are aborted; and a task that
\* has finished on its own stays finished when it is aborted.
C7_CancelNeverBlocks ==
    /\ (login_result # None) ~> (pc = "done")
    /\ [][/\ handle = "finished" => handle' = "finished"
          /\ token_task = "finished" => token_task' = "finished"]_vars

\* Witness of C7: both aborts were called while the event-loop task had
\* finished on its own and token_task held the slot's lock.
C7_Witness ==
    /\ pc = "close"
    /\ handle = "finished"
    /\ handle_abort
    /\ token_task = "write"
    /\ token_task_abort

\* C8 (as claimed): the driver never returns the error of an optional step.
C8_OptionalNeverFails ==
    login_result # None =>
        \/ Unwrap(login_result).ok
        \/ Unwrap(login_result).err \notin {ErrClickNext, ErrClickPasswordNext}

\* The request token_task took last.
LastProcessed == Request(Last(processed).request)

\* The URL holds the target domain and "login", and the request has a body.
Qualifies(r) ==
    /\ contains(r.url, sGrowtopiaGameCom)
    /\ contains(r.url, sLogin)
    /\ IsSome(r.post_data)

\* f is key=value with "token" in the key.
KeyValueTokenFragment(f) ==
    /\ Len(split(f, "=")) >= 2
    /\ contains(to_lowercase(split(f, "=")[1]), sToken)

\* The text of f after its first '='.
ValueOf(f) == SubSeq(f, Len(split(f, "=")[1]) + 2, Len(f))

\* v percent-decoded, v itself when the decoded bytes are not UTF-8.
Decoded(v) == LET d == urlencoding_decode(v) IN IF d.ok THEN d.val ELSE v

\* The first fragment that holds "token" and an '='.
FirstTokenFragment(frags) ==
    CHOOSE k \in 1..Len(frags) :
        /\ contains(to_lowercase(frags[k]), sToken)
        /\ Len(split(frags[k], "=")) >= 2
        /\ \A j \in 1..(k - 1) :
               ~(/\ contains(to_lowercase(frags[j]), sToken)
                 /\ Len(split(frags[j], "=")) >= 2)

\* C4 (as claimed): once token_task is done with a request whose URL holds
\* the target domain and "login" and whose body has a fragment key=value
\* with "token" in the key, the slot holds the percent-decoded value of such
\* a fragment.
C4_TokenFragmentSetsSlot ==
    (token_task = "recv" /\ processed # <<>> /\ Qualifies(LastProcessed)) =>
        LET frags == split(Unwrap(LastProcessed.post_data), "&")
        IN  (\E k \in 1..Len(frags) : KeyValueTokenFragment(frags[k])) =>
                \E k \in 1..Len(frags) :
                    /\ KeyValueTokenFragment(frags[k])
                    /\ token = Some(Decoded(ValueOf(frags[k])))

\* C4 (amended): once token_task is done with a request whose URL holds the
\* target domain and "login" and whose body matches (?i)growtopia.*?token,
\* if the first fragment of the body that holds "token" and an '=' is
\* key=value with "token" in the key and no '=' in the value, the slot holds
\* the percent-decoded value of that fragment (the value as it is when the
\* decoded bytes are not UTF-8).
C4_ExtractorSetsSlot ==
    (/\ token_task = "recv"
     /\ processed # <<>>
     /\ Qualifies(LastProcessed)
     /\ growtopia_token_regex_is_match(Unwrap(LastProcessed.post_data))) =>
        LET frags == split(Unwrap(LastProcessed.post_data), "&")
        IN  (\E k \in 1..Len(frags) :
                 /\ contains(to_lowercase(frags[k]), sToken)
                 /\ Len(split(frags[k], "=")) >= 2) =>
                LET f == frags[FirstTokenFragment(frags)]
                IN  (KeyValueTokenFragment(f) /\ Len(split(f, "=")) = 2) =>
                        token = Some(Decoded(ValueOf(f)))

\* Witness of C4: the body growtopia=1&my_token=abc%20def was processed and
\* the slot holds "abc def".
C4_Witness ==
    /\ token_task = "recv"
    /\ processed # <<>>
    /\ LastProcessed.url = UrlGrowtopiaLogin
    /\ LastProcessed.post_data
           = Some(join(<<Fragments[4], Fragments[3]>>, <<"&">>))
    /\ token = Some(<<"a","b","c"," ","d","e","f">>)

\* C9: the channel never holds more than QueueCap events.  handle_event for
\* a request event appends the event when the receiver exists and fewer
\* than QueueCap events wait, leaves the channel as it is otherwise, and
\* returns Ok either way; no other step makes the channel longer.  With a
\* full channel the handler can still take the next request event.
C9_BoundedTap ==
    /\ [](Len(chan) <= QueueCap)
    /\ []((handle = "running" /\ emitted < budget /\ Len(chan) = QueueCap)
            => ENABLED HandleEvent([kind |-> "RequestWillBeSent", request |-> 3]))
    /\ [][/\ emitted' = emitted + 1 =>
                /\ handler_ret' = "Ok"
                /\ handed' = Append(handed, Last(handed'))
                /\ IF rx_alive /\ Len(chan) < QueueCap
                   THEN chan' = Append(chan, Last(handed'))
                   ELSE chan' = chan
          /\ emitted' = emitted => Len(chan') <= Len(chan)]_vars

\* Witness of C9: the channel is full and a request event handed to the
\* handler is neither in the channel nor taken by token_task.
C9_Witness ==
    /\ Len(chan) = QueueCap
    /\ Len(handed) > Len(processed) + Len(chan)
    /\ handler_ret = "Ok"

\* C10: the requests token_task takes are requests the handler was handed,
\* in the order it was handed them, each at most once.
C10_OrderPreserved ==
    /\ \A i \in 1..Len(processed) :
           /\ processed[i].id \in 1..Len(handed)
           /\ handed[processed[i].id] = processed[i]
    /\ \A i \in 1..(Len(processed) - 1) : processed[i].id < processed[i + 1].id

\* Witness of C10: token_task took a request after a dropped one.
C10_Witness ==
    \E i \in 1..(Len(processed) - 1) : processed[i + 1].id > processed[i].id + 1

\* C11 (as claimed): once the function has aborted token_task and read the
\* slot, the token it reports is the value the slot holds from then on, and
\* token_task writes the slot no more.
C11_ReadsFinalValue ==
    (pc = "done" /\ chromiumoxide) =>
        /\ token_task_abort
        /\ returned[1].token = token

\* C12: the slot's lock is held by token_task only between its lock and its
\* write (lines 143-145) and by the function only within the statement of
\* line 159, never while either is at an await or after it ended; so when
\* the function comes to lock the slot and token_task is cancelled or has
\* finished, the lock is free.
C12_LockNotAcrossAwait ==
    /\ lock = "token_task" <=> token_task = "write"
    /\ lock = "main" <=> pc = "read"
    /\ (pc = "lock" /\ token_task \in {"cancelled", "finished"}) => lock = "free"

\* Witness of C12: the function is about to lock the slot that the
\* cancelled token_task wrote.
C12_Witness ==
    /\ pc = "lock"
    /\ token_task = "cancelled"
    /\ token # None
    /\ lock = "free"

\* The request token_task is working on.
Current == Request(Unwrap(request).request)

\* C13 (as claimed): the value token_task is about to write comes from a
\* fragment of the body whose key, the text before its first '=', holds
\* "token" in any letter case.
C13_ValueFromTokenKey ==
    token_task = "lock" =>
        LET frags == split(Unwrap(Current.post_data), "&")
        IN  \E k \in 1..Len(frags) :
                /\ KeyValueTokenFragment(frags[k])
                /\ token_value_ = Some(token_value(split(frags[k], "=")))

\* C14 (as claimed): the value token_task is about to write is the text
\* after the first '=' of the fragment it chose, later '=' included,
\* percent-decoded if it holds a '%' (as it is when decoding fails), and as
\* it is if it holds none.
C14_ValueAfterFirstEquals ==
    token_task = "lock" =>
        LET frags == split(Unwrap(Current.post_data), "&")
            v == ValueOf(frags[FirstTokenFragment(frags)])
        IN  token_value_ = Some(IF contains(v, <<"%">>) THEN Decoded(v) ELSE v)

\* The cases in which token_task is to leave the slot alone: the URL lacks
\* the target domain or "login", there is no body, the body fails the
\* pattern, or no fragment of the body holds "token".
Discarded(r) ==
    \/ ~contains(r.url, sGrowtopiaGameCom)
    \/ ~contains(r.url, sLogin)
    \/ r.post_data = None
    \/ /\ IsSome(r.post_data)
       /\ \/ ~growtopia_token_regex_is_match(Unwrap(r.post_data))
          \/ \A k \in 1..Len(split(Unwrap(r.post_data), "&")) :
                 ~contains(to_lowercase(split(Unwrap(r.post_data), "&")[k]), sToken)

\* C15: token_task is done with such a request after its filters, the slot
\* unchanged; and the slot changes only in the write for a request that is
\* not one of these.
C15_DiscardLeavesSlot ==
    [][/\ (token_task = "filter" /\ Discarded(Current))
            => (token_task' = "recv" /\ token' = token)
       /\ token' # token => (token_task = "write" /\ ~Discarded(Current))]_vars

\* Witness of C15: the body a=1&other=xyz was processed and the slot still
\* holds the value written before.
C15_Witness ==
    /\ token_task = "recv"
    /\ Len(processed) = 2
    /\ LastProcessed.url = UrlGrowtopiaLogin
    /\ LastProcessed.post_data
           = Some(join(<<Fragments[1], Fragments[2]>>, <<"&">>))
    /\ Discarded(LastProcessed)
    /\ token = Some(<<"x","y","z">>)

\* s is made of hex digits.
IsHexString(s) == \A i \in 1..Len(s) : IsHex(s[i])

\* C16: generate_random_mac_address returns six groups of two hex digits
\* separated by colons, generate_rid returns 32 hex digits, and
\* generate_random_hex(length) returns length hex digits.
C16_GeneratorFormats ==
    generated # None =>
        LET g == Unwrap(generated)
        IN  /\ g.fn = "generate_random_mac_address" =>
                   /\ Len(split(g.out, ":")) = 6
                   /\ \A k \in 1..Len(split(g.out, ":")) :
                          /\ Len(split(g.out, ":")[k]) = 2
                          /\ IsHexString(split(g.out, ":")[k])
            /\ g.fn = "generate_rid" =>
                   /\ Len(g.out) = 32
                   /\ IsHexString(g.out)
            /\ g.fn = "generate_random_hex" =>
                   /\ Len(g.out) = g.length
                   /\ IsHexString(g.out)

\* Witness of C16: the MAC address 09:0A:0B:0C:0D:0E, whose groups need
\* their leading zero.
C16_Witness ==
    /\ generated # None
    /\ Unwrap(generated).fn = "generate_random_mac_address"
    /\ Unwrap(generated).out
           = <<"0","9",":","0","A",":","0","B",":","0","C",":","0","D",":","0","E">>

\* The driver's positions in the order of the source: NavigateToProvider,
\* EnterIdentifier (find, enter), AdvancePastIdentifier (find, click),
\* EnterSecret (find, enter), AdvancePastSecret (find, click),
\* EnterRecoveryIdentifier (find, enter), AdvancePastRecovery (find, click),
\* Settle and NavigateToTargetLogin.
DriverOrder ==
    <<"goto_provider", "find_email", "enter_email",
      "find_identifier_next", "click_identifier_next",
      "find_password", "enter_password",
      "find_password_next", "click_password_next",
      "find_recovery", "enter_recovery",
      "find_recovery_next", "click_recovery_next", "connect">>

DriverSteps == {DriverOrder[i] : i \in 1..Len(DriverOrder)}

Rank(p) == CHOOSE i \in 1..Len(DriverOrder) : DriverOrder[i] = p

\* The error that names the failure of a mandatory step at position p.
MandatoryError(p) ==
    CASE p = "goto_provider"  -> ErrOpenLoginPage
      [] p = "find_email"     -> ErrEmailNotFound
      [] p = "enter_email"    -> ErrEnterEmail
      [] p = "find_password"  -> ErrPasswordNotFound
      [] p = "enter_password" -> ErrEnterPassword
      [] p = "connect"        -> ErrNavigateGrowtopia
      [] OTHER                -> ""

MandatorySteps ==
    {"goto_provider", "find_email", "enter_email", "find_password",
     "enter_password", "connect"}

\* C17: the driver starts with the navigation to the provider and moves
\* only forward in the order of DriverOrder; once it has returned, no
\* step of it is performed; a mandatory step that fails makes it return at
\* once with the error that names that step; Ok is returned only by the
\* final navigation.
C17_DriverOrder ==
    /\ [](login_result # None => pc \notin DriverSteps)
    /\ [][/\ (pc \notin DriverSteps /\ pc' \in DriverSteps) => pc' = "goto_provider"
          /\ (pc \in DriverSteps /\ pc' \in DriverSteps /\ pc' # pc)
                => Rank(pc') > Rank(pc)
          /\ (pc \in MandatorySteps /\ pc' \notin DriverSteps /\ pc' # pc)
                => /\ pc' = "settle"
                   /\ login_result' \in {Some(Ok), Some(Err(MandatoryError(pc)))}
                   /\ login_result' = Some(Ok) => pc = "connect"
          /\ (login_result = None /\ login_result' = Some(Ok)) => pc = "connect"]_vars

\* Witness of C17: the driver got past the identifier's Next button, failed
\* to enter the password, and the attempt ended with that error.
C17_Witness ==
    /\ pc = "done"
    /\ optional_found
    /\ login_result = Some(Err(ErrEnterPassword))
    /\ returned[1].error = Some(ErrEnterPassword)

\* The value of the last of the requests q that yields one, None if none
\* does.
LastProduced(q) ==
    LET P == {i \in 1..Len(q) : extract(Request(q[i].request)) # None}
    IN  IF P = {} THEN None
        ELSE extract(Request(q[CHOOSE i \in P : \A j \in P : j <= i].request))

\* C19: whenever token_task is done with the requests it took, at recv
\* or finished, the slot is empty if none of them yielded a value and else
\* holds the value of the last one that did; every change of the slot is
\* the write of the value of the request being processed; and a slot that
\* holds a value never becomes empty.
C19_LastParseWins ==
    /\ [](token_task \in {"recv", "finished"} => token = LastProduced(processed))
    /\ [][/\ token' # token =>
                /\ token_task = "write"
                /\ token' = extract(Current)
          /\ token # None => token' # None]_vars

\* Witness of C19: two requests with different tokens were processed and
\* the slot holds the second one's.
C19_Witness ==
    /\ token_task = "recv"
    /\ Len(processed) = 2
    /\ processed[1].request = 1
    /\ processed[2].request = 2
    /\ token = Some(<<"x","y","z">>)

\* The first fragment that holds "token".
FirstHoldingToken(frags) ==
    CHOOSE k \in 1..Len(frags) :
        /\ contains(to_lowercase(frags[k]), sToken)
        /\ \A j \in 1..(k - 1) : ~contains(to_lowercase(frags[j]), sToken)

\* C20 (as claimed): the value token_task is about to write comes from the
\* first fragment of the body that holds "token"; a body whose first such
\* fragment has no '=' sets nothing.
C20_FirstFragmentDecides ==
    token_task = "lock" =>
        LET frags == split(Unwrap(Current.post_data), "&")
            f == frags[FirstHoldingToken(frags)]
        IN  /\ Len(split(f, "=")) >= 2
            /\ token_value_ = Some(token_value(split(f, "=")))

====
